---- MODULE Spec2Model ----
(***************************************************************************)
(* Shift-handover log: the V3 portal (app.py), the shift log input page    *)
(* (shift_log.py) and the manager dashboard (dashboard.py), all three on   *)
(* the one SQLite file data/shift_logs.db.                                 *)
(*                                                                         *)
(* Conventions of the model                                                *)
(*  - a table is the sequence of its rows in rowid order; SELECT returns   *)
(*    them in that order; a NULL column is the string None;                *)
(*  - a wall-clock time is its minute of the day (0..1439); str(time) is   *)
(*    the triple <<hh, mm, ss>> standing for "HH:MM:SS";                   *)
(*  - a downtime is a whole number of minutes (the widgets yield whole     *)
(*    minutes, so round(dt, 1) changes nothing);                           *)
(*  - free text is a sequence of words;                                    *)
(*  - reports.submitted_at (the wall clock at the save) is not modelled.   *)
(***************************************************************************)
EXTENDS Integers, Sequences, FiniteSets, Bags, TLC

VARIABLES
    db,         \* the committed content of data/shift_logs.db
    app,        \* app.py: st.session_state of each browser session
    log,        \* shift_log.py: st.session_state of its session
    dash,       \* dashboard.py: the frames of its last script run
    spares_csv, \* data/spares.csv, the spares catalog
    ppm_file,   \* data/ppm_schedule.csv as check_smart_ppms finds it
    files,      \* data/reports/<yyyy>/<mm>/: base name -> document pair
    ret         \* the last handler that ran, its inputs and what it returned

vars == <<db, app, log, dash, spares_csv, ppm_file, files, ret>>

----------------------------------------------------------------------------
(* Bounds of the model *)

MaxReports == 2     \* rows of reports
MaxEntries == 2     \* entries a user adds to the lists of one session
MaxStock == 3       \* largest figure the manager types in the inventory editor

(* Program constants *)

MinutesPerDay == 1440
InitialStock == 10
InitialMinStock == 2

None == "None"

(* Inputs the widgets offer, cut down to the values that tell cases apart *)

AppSessions == {"u1", "u2"}
AppStatuses == {"Complete", "In Progress"}
AppShifts == {"Day Shift"}
\* every value of the Shift selectbox of app.py
AppShiftsAll == {"Day Shift", "Night Shift"}
LogShifts == {"Day", "Night"}
Quantities == {1, 2}
Today == <<"2024", "01", "05">>     \* a date as its year, month and day texts
Engineer == <<"Sarah", " ", "Jones">>
Asset == "Conveyor 1"

(* data/spares.csv as the maintainers may leave it: a catalog of two parts, *)
(* one that names P1 twice and lacks P2, one with a blank part number.      *)
Catalogs ==
    { << [part |-> "P1", desc |-> "bearing", loc |-> "A1"],
         [part |-> "P2", desc |-> "belt", loc |-> "B2"] >>,
      << [part |-> "P1", desc |-> "bearing", loc |-> "A1"],
         [part |-> "P1", desc |-> "bearing v2", loc |-> "A9"] >>,
      << [part |-> "nan", desc |-> "unnamed", loc |-> "C3"],
         [part |-> "P2", desc |-> "belt", loc |-> "B2"] >> }

PpmFiles == {"malformed", "scheduled"}

----------------------------------------------------------------------------
(* Helpers on sequences *)

RECURSIVE FlatMap(_, _)
FlatMap(F(_), q) == IF q = <<>> THEN <<>> ELSE F(Head(q)) \o FlatMap(F, Tail(q))

Map(F(_), q) == [i \in 1..Len(q) |-> F(q[i])]

RECURSIVE BagOfSeq(_)
BagOfSeq(q) == IF q = <<>> THEN EmptyBag ELSE SetToBag({Head(q)}) (+) BagOfSeq(Tail(q))

Range(q) == {q[i] : i \in 1..Len(q)}

----------------------------------------------------------------------------
(* Times *)

\* str(datetime.time): "HH:MM:SS"
TimeStr(t) == <<t \div 60, t % 60, 0>>

\* the minute of the day a stored "HH:MM:SS" names
TimeOfStr(s) == s[1] * 60 + s[2]

\* app.py: a datetime.time is always truthy, so the guard `if t1 and t2`
\* passes for every pair the time widgets yield
calculate_downtime(t1, t2) == t2 - t1

\* shift_log.py, Add Reactive: the same difference with the midnight rollover
log_downtime(r_called, r_back) ==
    LET dt == r_back - r_called
    IN  IF dt < 0 THEN dt + MinutesPerDay ELSE dt

----------------------------------------------------------------------------
\* a Python bool as SQLite stores it, as str() prints it, as the sheet ticks it
SqlBool(b) == IF b THEN "1" ELSE "0"
BoolStr(b) == IF b THEN "True" ELSE "False"
Tick(b) == IF b THEN "[x]" ELSE "[ ]"

(* The store.  Both init_db functions have run on the file: it holds the   *)
(* tables and columns of app.py and those shift_log.py adds.               *)

EmptyDb ==
    [ reports |-> <<>>, reactives |-> <<>>, ppms |-> <<>>, spares |-> <<>>,
      spares_used |-> <<>>, spares_inventory |-> <<>>,
      \* whether spares_inventory still has PRIMARY KEY(art_number)
      inventory_pk |-> TRUE ]

\* c.lastrowid of an INSERT INTO reports: AUTOINCREMENT, and no code deletes a report
NextReportId(d) == Len(d.reports) + 1

ReportIds(d) == {d.reports[i].id : i \in 1..Len(d.reports)}

ChildrenOf(table, rid) == SelectSeq(table, LAMBDA row : row.report_id = rid)

\* the UPDATE of the header without its WHERE clause
UpdateReport_NoWhere(reports, rid, h) ==
    [i \in 1..Len(reports) |->
        [reports[i] EXCEPT
            !.date = h.date, !.shift = h.shift, !.engineer = h.engineer,
            !.team_members = h.team_members, !.site_condition = h.site_condition,
            !.radios_charged = SqlBool(h.radios_charged),
            !.phones_working = SqlBool(h.phones_working),
            !.urgent_notes = h.urgent_notes, !.other_tasks = h.other_tasks]]

\* UPDATE reports SET <the columns app.py names> WHERE id = ?
UpdateReport(reports, rid, h) ==
    [i \in 1..Len(reports) |->
        IF reports[i].id = rid
        THEN [reports[i] EXCEPT
                !.date = h.date, !.shift = h.shift, !.engineer = h.engineer,
                !.team_members = h.team_members, !.site_condition = h.site_condition,
                !.radios_charged = SqlBool(h.radios_charged),
                !.phones_working = SqlBool(h.phones_working),
                !.urgent_notes = h.urgent_notes, !.other_tasks = h.other_tasks]
        ELSE reports[i]]

\* the UPDATE without its WHERE clause
DecrementStock_NoWhere(inventory, qty, art) ==
    [i \in 1..Len(inventory) |-> [inventory[i] EXCEPT !.stock_level = @ - qty]]

\* UPDATE spares_inventory SET stock_level = stock_level - ? WHERE art_number = ?
DecrementStock(inventory, qty, art) ==
    [i \in 1..Len(inventory) |->
        IF inventory[i].art_number = art
        THEN [inventory[i] EXCEPT !.stock_level = @ - qty]
        ELSE inventory[i]]

\* one c.execute of a save, applied to the connection's view of the store
Exec(d, st) ==
    CASE st.op = "insert" -> [d EXCEPT ![st.table] = Append(@, st.row)]
      [] st.op = "delete" ->
            [d EXCEPT ![st.table] = SelectSeq(@, LAMBDA row : row.report_id # st.rid)]
      [] st.op = "update_report" ->
            [d EXCEPT !.reports = UpdateReport(@, st.rid, st.row)]
      [] st.op = "decrement" ->
            [d EXCEPT !.spares_inventory = DecrementStock(@, st.qty, st.art)]

RECURSIVE ExecAll(_, _)
ExecAll(d, stmts) ==
    IF stmts = <<>> THEN d ELSE ExecAll(Exec(d, Head(stmts)), Tail(stmts))

\* a commit that is never reached: what the connection wrote is lost
Commit_NotReached(before, written) == before

\* conn.commit(): what the connection wrote becomes the content of the file
Commit(before, written) == written

\* a connection in autocommit mode: what ran before the exception stays
Abandon_Autocommit(before, written) == written

\* an exception leaves the handler before conn.commit(): the connection is
\* dropped with its transaction open and SQLite rolls it back
Abandon(before, written) == before

----------------------------------------------------------------------------
(* app.py: session state and the functions of the V3 portal *)

\* editing_report_id = None (report ids start at 1; `if editing_report_id:`
\* reads None and 0 alike)
NoReport == 0

\* str() of an id as the f-strings print it
IdStr(rid) == IF rid = NoReport THEN None ELSE ToString(rid)

\* a connection opened with isolation_level=None: every statement commits
\* at once and the lock is held for that statement only
TxnMode_Autocommit == "autocommit"

\* how sqlite3.connect(DB_FILE) opens its connections: with the default
\* isolation_level the first INSERT, UPDATE or DELETE begins a transaction
\* that takes the write lock of the file and holds it until commit
TxnMode == "deferred"

\* no save_report_to_db call in progress
NoTxn ==
    [ active |-> FALSE, rid |-> NoReport, view |-> <<>>, todo |-> <<>>,
      report_data |-> <<>>, replaced |-> <<>> ]

\* a browser session that has not run the script yet
NoSession ==
    [ open |-> FALSE, reactives |-> <<>>, ppms |-> <<>>, spares |-> <<>>,
      editing_report_id |-> NoReport, carry_over_checked |-> FALSE,
      \* history: how often the AUTO-LOGIC block has run to its end here
      auto_runs |-> 0,
      \* the save_report_to_db call of the running script, if any
      txn |-> NoTxn ]

\* init_session_state on an empty st.session_state
init_session_state == [NoSession EXCEPT !.open = TRUE]

\* check_smart_ppms: the schedule rows of today, [] when the file is absent
\* or does not parse
check_smart_ppms(file) ==
    IF file = "scheduled"
    THEN << [Asset |-> Asset, PPM_ID |-> "Daily check",
             Status |-> "In Progress", Comments |-> "Auto-scheduled"] >>
    ELSE <<>>

\* one row of reactives as check_carry_over_tasks hands it to the session
CarryOverEntry(row) ==
    [ Asset |-> row.asset, TimeCalled |-> row.time_called, TimeBack |-> row.time_back,
      Fault |-> row.fault, Engineers |-> row.engineers,
      Description |-> <<"[CARRY OVER]">> \o row.description,
      Downtime |-> row.downtime, Status |-> row.status ]

\* SELECT * FROM reactives WHERE status != 'Complete' (a NULL status does not match)
check_carry_over_tasks(d) ==
    Map(CarryOverEntry,
        SelectSeq(d.reactives, LAMBDA row : row.status # "Complete" /\ row.status # None))

\* the AUTO-LOGIC block without its last line, carry_over_checked = True
AutoLogic_Unflagged(ss, d, file) ==
    IF ~ss.carry_over_checked /\ ss.editing_report_id = NoReport
    THEN [ss EXCEPT !.reactives = @ \o check_carry_over_tasks(d),
                    !.ppms = @ \o check_smart_ppms(file),
                    !.auto_runs = @ + 1]
    ELSE ss

\* show_shift_log, AUTO-LOGIC: runs at the top of every script run of the page
AutoLogic(ss, d, file) ==
    IF ~ss.carry_over_checked /\ ss.editing_report_id = NoReport
    THEN [ss EXCEPT !.reactives = @ \o check_carry_over_tasks(d),
                    !.ppms = @ \o check_smart_ppms(file),
                    !.carry_over_checked = TRUE,
                    !.auto_runs = @ + 1]
    ELSE ss

\* the report_data dict of the SAVE TO DATABASE handler
AppReportData(s_date, s_shift, s_eng, s_team) ==
    [ date |-> s_date, shift |-> s_shift, engineer |-> s_eng, team_members |-> s_team,
      site_condition |-> "Normal", radios_charged |-> TRUE, phones_working |-> TRUE,
      urgent_notes |-> "N/A", other_tasks |-> "N/A" ]

\* the reports row an INSERT of app.py writes
AppReportRow(rid, h) ==
    [ id |-> rid, date |-> h.date, shift |-> h.shift, engineer |-> h.engineer,
      team_members |-> h.team_members, site_condition |-> h.site_condition,
      radios_charged |-> SqlBool(h.radios_charged),
      phones_working |-> SqlBool(h.phones_working),
      urgent_notes |-> h.urgent_notes, other_tasks |-> h.other_tasks,
      second_engineer |-> None, keys_handed |-> None, safety_check |-> None ]

AppReactiveRow(rid, r) ==
    [ report_id |-> rid, asset |-> r.Asset, time_called |-> r.TimeCalled,
      time_back |-> r.TimeBack, fault |-> r.Fault, engineers |-> r.Engineers,
      description |-> r.Description, downtime |-> r.Downtime, status |-> r.Status ]

AppPpmRow(rid, p) ==
    [ report_id |-> rid, asset |-> p.Asset, ppm_id |-> p.PPM_ID,
      status |-> p.Status, comments |-> p.Comments ]

AppSpareRow(rid, s) ==
    [ report_id |-> rid, art_number |-> s.ART, description |-> s.Description,
      location |-> s.Location, category |-> s.Category, quantity |-> s.Quantity,
      decision |-> s.Decision ]

Insert(table, row) == [op |-> "insert", table |-> table, row |-> row]
Delete(table, rid) == [op |-> "delete", table |-> table, rid |-> rid]

\* save_report_to_db that takes the INSERT branch whatever the marker says
AppSaveRid_AlwaysNew(ss, d) == NextReportId(d)

\* the id save_report_to_db writes under
AppSaveRid(ss, d) ==
    IF ss.editing_report_id # NoReport THEN ss.editing_report_id ELSE NextReportId(d)

\* save_report_to_db without its DELETE FROM spares
AppSaveStmts_KeepsSpares(ss, d, report_data) ==
    LET rid == AppSaveRid(ss, d)
        header ==
            IF ss.editing_report_id # NoReport
            THEN << [op |-> "update_report", rid |-> rid, row |-> report_data],
                    Delete("reactives", rid), Delete("ppms", rid) >>
            ELSE << Insert("reports", AppReportRow(rid, report_data)) >>
    IN  header
        \o [i \in 1..Len(ss.reactives) |-> Insert("reactives", AppReactiveRow(rid, ss.reactives[i]))]
        \o [i \in 1..Len(ss.ppms) |-> Insert("ppms", AppPpmRow(rid, ss.ppms[i]))]
        \o [i \in 1..Len(ss.spares) |-> Insert("spares", AppSpareRow(rid, ss.spares[i]))]

\* save_report_to_db: the statements it executes, in order
AppSaveStmts(ss, d, report_data) ==
    LET rid == AppSaveRid(ss, d)
        header ==
            IF ss.editing_report_id # NoReport
            THEN << [op |-> "update_report", rid |-> rid, row |-> report_data],
                    Delete("reactives", rid), Delete("ppms", rid), Delete("spares", rid) >>
            ELSE << Insert("reports", AppReportRow(rid, report_data)) >>
    IN  header
        \o [i \in 1..Len(ss.reactives) |-> Insert("reactives", AppReactiveRow(rid, ss.reactives[i]))]
        \o [i \in 1..Len(ss.ppms) |-> Insert("ppms", AppPpmRow(rid, ss.ppms[i]))]
        \o [i \in 1..Len(ss.spares) |-> Insert("spares", AppSpareRow(rid, ss.spares[i]))]

\* load_report_for_editing: the session lists it builds from the rows of a report
LoadedReactive(row) ==
    [ Asset |-> row.asset, TimeCalled |-> row.time_called, TimeBack |-> row.time_back,
      Fault |-> row.fault, Engineers |-> row.engineers, Description |-> row.description,
      Downtime |-> row.downtime, Status |-> row.status ]

LoadedPpm(row) ==
    [ Asset |-> row.asset, PPM_ID |-> row.ppm_id, Status |-> row.status,
      Comments |-> row.comments ]

LoadedSpare(row) ==
    [ ART |-> row.art_number, Description |-> row.description, Location |-> row.location,
      Category |-> row.category, Quantity |-> row.quantity, Decision |-> row.decision ]

\* load_report_for_editing without the resets of the three lists
load_report_for_editing_Appends(ss, d, report_id) ==
    IF report_id \notin ReportIds(d)
    THEN ss
    ELSE [ss EXCEPT
            !.editing_report_id = report_id,
            !.reactives = @ \o Map(LoadedReactive, ChildrenOf(d.reactives, report_id)),
            !.ppms = @ \o Map(LoadedPpm, ChildrenOf(d.ppms, report_id)),
            !.spares = @ \o Map(LoadedSpare, ChildrenOf(d.spares, report_id))]

\* load_report_for_editing that marks the session before it looks the report up
load_report_for_editing_MarksFirst(ss, d, report_id) ==
    IF report_id \notin ReportIds(d)
    THEN [ss EXCEPT !.editing_report_id = report_id]
    ELSE [ss EXCEPT
            !.editing_report_id = report_id,
            !.reactives = Map(LoadedReactive, ChildrenOf(d.reactives, report_id)),
            !.ppms = Map(LoadedPpm, ChildrenOf(d.ppms, report_id)),
            !.spares = Map(LoadedSpare, ChildrenOf(d.spares, report_id))]

load_report_for_editing(ss, d, report_id) ==
    IF report_id \notin ReportIds(d)
    THEN ss
    ELSE [ss EXCEPT
            !.editing_report_id = report_id,
            !.reactives = Map(LoadedReactive, ChildrenOf(d.reactives, report_id)),
            !.ppms = Map(LoadedPpm, ChildrenOf(d.ppms, report_id)),
            !.spares = Map(LoadedSpare, ChildrenOf(d.spares, report_id))]

\* one flowable or cell row of a document: the section it belongs to, what it
\* is, and its text as a sequence of strings
El(sec, kind, body) == [sec |-> sec, kind |-> kind, body |-> body]

\* app.py generate_pdf_report; the title reads the session, not an argument
app_generate_pdf_report(shift_data, reactives, ppms, spares, session_state) ==
    << El("title", "heading", <<"SHIFT REPORT #", IdStr(session_state.editing_report_id)>>),
       El("details", "heading", <<"SHIFT DETAILS">>),
       El("details", "table",
          <<"date">> \o shift_data.date \o <<"shift", shift_data.shift, "engineer">>
          \o shift_data.engineer
          \o <<"team_members", shift_data.team_members,
               "site_condition", shift_data.site_condition,
               "radios_charged", BoolStr(shift_data.radios_charged),
               "phones_working", BoolStr(shift_data.phones_working),
               "urgent_notes", shift_data.urgent_notes,
               "other_tasks", shift_data.other_tasks>>) >>
    \o (IF reactives # <<>>
        THEN << El("reactives", "heading", <<"REACTIVE TASKS", ToString(Len(reactives))>>),
                El("reactives", "header", <<"Asset", "Fault", "Status", "Downtime">>) >>
             \o [i \in 1..Len(reactives) |->
                   El("reactives", "row",
                      << reactives[i].Asset, reactives[i].Fault, reactives[i].Status,
                         ToString(reactives[i].Downtime) >>)]
        ELSE <<>>)

----------------------------------------------------------------------------
(* shift_log.py *)

\* INSERT OR REPLACE INTO spares_inventory: with the primary key in place a row
\* of the same art_number is removed first; without it the row is just added
InsertOrReplace(inventory, pk, row) ==
    IF pk
    THEN Append(SelectSeq(inventory, LAMBDA old : old.art_number # row.art_number), row)
    ELSE Append(inventory, row)

InventoryRow(c) ==
    [ art_number |-> c.part, description |-> c.desc, location |-> c.loc,
      category |-> "General", stock_level |-> InitialStock,
      min_stock_level |-> InitialMinStock ]

\* the loop of reload_spares_from_csv over the catalog rows:
\* the inventory, the count and the duplicates it ends with
RECURSIVE ReloadLoop(_, _, _)
ReloadLoop(acc, pk, rows) ==
    IF rows = <<>> THEN acc
    ELSE LET c == Head(rows)
         IN  IF c.part = "UNKNOWN" \/ c.part = "nan"
             THEN ReloadLoop(acc, pk, Tail(rows))
             ELSE ReloadLoop(
                    [acc EXCEPT !.inventory = InsertOrReplace(@, pk, InventoryRow(c)),
                                !.count = @ + 1],
                    pk, Tail(rows))

\* reload_spares_from_csv: DELETE FROM spares_inventory, then the loop
reload_spares_from_csv(d, csv) ==
    ReloadLoop([inventory |-> <<>>, count |-> 0, duplicates |-> 0], d.inventory_pk, csv)

\* round(minutes / 60 * engineers, 2) in hundredths of an hour (minutes * engineers
\* * 100 / 60 never falls on a half, so nearest is the only rounding)
HoursHundredths(minutes, engineers) == (minutes * engineers * 100 + 30) \div 60

StrTime(t) == <<ToString(t[1]), ToString(t[2]), ToString(t[3])>>

\* generate_excel_report: the rows of the sheet, each with its row number
generate_excel_report(shift_data, reactives, ppms, other_tasks, spares) ==
    LET n == Len(reactives)
        m == Len(ppms)
        ppmRow == 8 + 2 + n + 2
        spRow == ppmRow + 1 + m + 2
    IN  << El("header", "cells", <<"1", "Engineer:">> \o shift_data.engineer
                                  \o <<shift_data.second_engineer>>),
           El("header", "cells", <<"1", "HANDOVER NOTES:", shift_data.urgent_notes>>),
           El("header", "check", <<"3", "RADIO CHECK", Tick(shift_data.radios_charged)>>),
           El("header", "check", <<"4", "PHONES HANDED", Tick(shift_data.phones_working)>>),
           El("header", "check", <<"5", "KEYS HANDED", Tick(shift_data.keys_handed)>>),
           El("header", "check", <<"6", "SAFETY OK", Tick(shift_data.safety_check)>>),
           El("reactives", "heading", <<"8", "Reactive Tasks">>),
           El("reactives", "header",
              <<"9", "Time Called", "Time Back", "Asset", "Fault", "Comment", "Engs",
                "Man Hrs", "DT Hrs">>) >>
        \o [i \in 1..n |->
              El("reactives", "row",
                 <<ToString(9 + i)>> \o StrTime(reactives[i].TimeCalled)
                 \o StrTime(reactives[i].TimeBack)
                 \o <<reactives[i].Asset, reactives[i].Fault>> \o reactives[i].Description
                 \o << ToString(reactives[i].Engineers),
                       ToString(HoursHundredths(reactives[i].Downtime, reactives[i].Engineers)),
                       ToString(HoursHundredths(reactives[i].Downtime, 1)) >>)]
        \o << El("ppms", "heading", <<ToString(ppmRow), "PPM Tasks">>) >>
        \o [i \in 1..m |->
              El("ppms", "row",
                 <<ToString(ppmRow + i), ppms[i].Asset, ppms[i].Status, ppms[i].Comments>>)]
        \o << El("spares", "heading", <<ToString(spRow), "Spares Used">>),
              El("spares", "header",
                 <<ToString(spRow + 1), "ART #", "LOCATION", "DESC", "CATEGORY", "REASON">>),
              El("spares", "header",
                 <<ToString(spRow + 2), "QTY", "NAME", "DATE", "DECISION">>) >>
        \o FlatMap(LAMBDA i :
              << El("spares", "row",
                    << ToString(spRow + 1 + 2 * i), spares[i].ART, spares[i].Location,
                       spares[i].Description, ToString(spares[i].CategoryCode),
                       "Wear Part" >>),
                 El("spares", "row",
                    <<ToString(spRow + 2 + 2 * i), ToString(spares[i].Quantity)>>
                    \o shift_data.engineer \o shift_data.date \o <<spares[i].Decision>>) >>,
              [i \in 1..Len(spares) |-> i])

\* shift_log.py generate_pdf_report
log_generate_pdf_report(shift_data, reactives, ppms, other_tasks, spares, rid) ==
    << El("title", "heading", <<"SHIFT REPORT #", IdStr(rid)>>),
       El("title", "spacer", <<>>),
       El("title", "text", <<"Engineer:">> \o shift_data.engineer
                           \o <<"Date:">> \o shift_data.date),
       El("title", "text", <<"Handover Notes:", shift_data.urgent_notes>>),
       El("title", "pagebreak", <<>>),
       El("reactives", "heading", <<"Reactive Tasks">>) >>
    \o (IF reactives # <<>>
        THEN << El("reactives", "header", <<"Asset", "Fault", "Time", "DT(m)">>) >>
             \o [i \in 1..Len(reactives) |->
                   El("reactives", "row",
                      <<reactives[i].Asset, reactives[i].Fault>>
                      \o StrTime(reactives[i].TimeCalled)
                      \o <<ToString(reactives[i].Downtime)>>)]
        ELSE <<>>)

\* the r_data dict of the SAVE REPORT handler
LogReportData(s_date, s_shift, s_eng, s_sec_eng, urgent, chk_rad, chk_phn, chk_key, chk_safe) ==
    [ date |-> s_date, shift |-> s_shift, engineer |-> s_eng,
      second_engineer |-> s_sec_eng, urgent_notes |-> urgent,
      radios_charged |-> chk_rad, phones_working |-> chk_phn,
      keys_handed |-> chk_key, safety_check |-> chk_safe ]

\* the reports row the SAVE REPORT handler inserts
LogReportRow(rid, h) ==
    [ id |-> rid, date |-> h.date, shift |-> h.shift, engineer |-> h.engineer,
      team_members |-> None, site_condition |-> None,
      radios_charged |-> SqlBool(h.radios_charged),
      phones_working |-> SqlBool(h.phones_working),
      urgent_notes |-> h.urgent_notes, other_tasks |-> None,
      second_engineer |-> h.second_engineer, keys_handed |-> SqlBool(h.keys_handed),
      safety_check |-> SqlBool(h.safety_check) ]

\* the INSERT INTO reactives of shift_log.py names no status column
LogReactiveRow(rid, r) ==
    [ report_id |-> rid, asset |-> r.Asset, time_called |-> r.TimeCalled,
      time_back |-> r.TimeBack, fault |-> r.Fault, engineers |-> r.Engineers,
      description |-> r.Description, downtime |-> r.Downtime, status |-> None ]

LogSpareRow(rid, s) ==
    [ report_id |-> rid, art_number |-> s.ART, description |-> s.Description,
      location |-> s.Location, quantity |-> s.Quantity, decision |-> s.Decision,
      category_code |-> s.CategoryCode ]

\* SAVE REPORT: the statements between connect and commit, in order
LogSaveStmts(ss, d, r_data) ==
    LET rid == NextReportId(d)
    IN  << Insert("reports", LogReportRow(rid, r_data)) >>
        \o [i \in 1..Len(ss.reactives) |-> Insert("reactives", LogReactiveRow(rid, ss.reactives[i]))]
        \o FlatMap(LAMBDA s :
              << Insert("spares_used", LogSpareRow(rid, s)),
                 [op |-> "decrement", qty |-> s.Quantity, art |-> s.ART] >>,
              ss.spares)

\* f"ShiftReport_{date:%Y%m%d}_{shift}_{engineer.replace(' ', '')}" under
\* data/reports/<year>/<month>
BaseName(date, shift, engineer) ==
    <<"data", "reports", date[1], date[2], "ShiftReport_">> \o date
    \o <<"_", shift, "_">> \o SelectSeq(engineer, LAMBDA w : w # " ")

----------------------------------------------------------------------------
(* dashboard.py *)

\* the comparison with < in place of <=
low_stock_Strict(df_inventory) ==
    SelectSeq(df_inventory, LAMBDA row : row.stock_level < row.min_stock_level)

\* tab3: df_inventory[df_inventory['stock_level'] <= df_inventory['min_stock_level']]
low_stock(df_inventory) ==
    SelectSeq(df_inventory, LAMBDA row : row.stock_level <= row.min_stock_level)

NoDash == [loaded |-> FALSE, df_inventory |-> <<>>, low_stock |-> <<>>]

\* one script run of the dashboard past the st.stop() guard
DashRun(d) ==
    [loaded |-> TRUE, df_inventory |-> d.spares_inventory,
     low_stock |-> low_stock(d.spares_inventory)]

\* tab4, File Logic: the documents the report browser offers for a row of
\* reports, found by the name built from its date, shift and engineer
ResolveDocs(row, fs) ==
    SelectSeq(fs, LAMBDA f : f.bname = BaseName(row.date, row.shift, row.engineer))

----------------------------------------------------------------------------
(* The state machine *)

\* the entries a session holds in its three lists
Entries(ss) == Len(ss.reactives) + Len(ss.ppms) + Len(ss.spares)

\* what the last handler that reports an outcome returned or showed: its
\* success, the report id, the arguments of its renderers, the child rows it
\* replaced, the documents, the counts of a catalog reload
NoRet ==
    [ op |-> "none", who |-> "none", ok |-> TRUE, rid |-> NoReport,
      args |-> <<>>, replaced |-> <<>>, pdf |-> <<>>, xls |-> <<>>,
      count |-> 0, duplicates |-> 0 ]

Init ==
    /\ db = EmptyDb
    /\ app = [s \in AppSessions |-> NoSession]
    /\ log = [reactives |-> <<>>, ppms |-> <<>>, other_tasks |-> <<>>, spares |-> <<>>]
    /\ dash = NoDash
    /\ spares_csv \in Catalogs
    /\ ppm_file \in PpmFiles
    /\ files = <<>>
    /\ ret = NoRet

(* app.py *)

\* the first script run of a browser session: init_session_state, then the
\* Shift Log page (the sidebar radio starts on it)
OpenApp(s) ==
    /\ ~app[s].open
    /\ app' = [app EXCEPT ![s] = AutoLogic(init_session_state, db, ppm_file)]
    /\ UNCHANGED <<db, log, dash, spares_csv, ppm_file, files, ret>>

\* a script run of the Shift Log page in which the query of
\* check_carry_over_tasks raises (the file is locked, or reactives has no
\* status column because shift_log.py created it): nothing catches the
\* exception, so the run ends at line 338, before the widgets and before
\* carry_over_checked is set
AppRunFault(s) ==
    /\ LET ss == IF app[s].open THEN app[s] ELSE init_session_state
       IN  /\ ~ss.carry_over_checked /\ ss.editing_report_id = NoReport
           /\ app' = [app EXCEPT ![s] = ss]
           /\ ret' = [NoRet EXCEPT !.op = "app.run", !.who = s, !.ok = FALSE]
    /\ UNCHANGED <<db, log, dash, spares_csv, ppm_file, files>>

\* the last run of the Shift Log page got past AUTO-LOGIC, down to the
\* SAVE TO DATABASE button
CanSave(ss) ==
    ss.open /\ (ss.carry_over_checked \/ ss.editing_report_id # NoReport)

\* the browser tab is closed or reloaded: Streamlit drops the session state
CloseApp(s) ==
    /\ app[s].open
    /\ app' = [app EXCEPT ![s] = NoSession]
    /\ UNCHANGED <<db, log, dash, spares_csv, ppm_file, files, ret>>

\* show_shift_log, "Add Reactive"
AppAddReactive(s, r_called, r_back, r_status) ==
    /\ app[s].open
    /\ Entries(app[s]) < MaxEntries
    /\ LET ss == AutoLogic(app[s], db, ppm_file)
           dt == calculate_downtime(r_called, r_back)
       IN  app' = [app EXCEPT ![s] =
                [ss EXCEPT !.reactives = Append(@,
                    [ Asset |-> Asset, TimeCalled |-> TimeStr(r_called),
                      TimeBack |-> TimeStr(r_back), Fault |-> "Electrical",
                      Status |-> r_status, Engineers |-> 1,
                      Description |-> <<"jam">>, Downtime |-> dt ])]]
    /\ UNCHANGED <<db, log, dash, spares_csv, ppm_file, files, ret>>

\* show_shift_log, "Add PPM"
AppAddPpm(s) ==
    /\ app[s].open
    /\ Entries(app[s]) < MaxEntries
    /\ LET ss == AutoLogic(app[s], db, ppm_file)
       IN  app' = [app EXCEPT ![s] =
                [ss EXCEPT !.ppms = Append(@,
                    [ Asset |-> Asset, PPM_ID |-> "T1", Status |-> "Complete",
                      Comments |-> "" ])]]
    /\ UNCHANGED <<db, log, dash, spares_csv, ppm_file, files, ret>>

\* show_shift_log, "Add Spare"
AppAddSpare(s, s_art, s_qty) ==
    /\ app[s].open
    /\ Entries(app[s]) < MaxEntries
    /\ LET ss == AutoLogic(app[s], db, ppm_file)
       IN  app' = [app EXCEPT ![s] =
                [ss EXCEPT !.spares = Append(@,
                    [ ART |-> s_art, Description |-> "part", Location |-> "shelf",
                      Category |-> "Gen", Quantity |-> s_qty, Decision |-> "Used" ])]]
    /\ UNCHANGED <<db, log, dash, spares_csv, ppm_file, files, ret>>

\* show_shift_log, "Cancel Editing", and the rerun it asks for
AppCancel(s) ==
    /\ app[s].open
    /\ app[s].editing_report_id # NoReport
    /\ app' = [app EXCEPT ![s] =
            AutoLogic([@ EXCEPT !.editing_report_id = NoReport, !.reactives = <<>>,
                                !.ppms = <<>>, !.spares = <<>>],
                      db, ppm_file)]
    /\ UNCHANGED <<db, log, dash, spares_csv, ppm_file, files, ret>>

\* show_shift_log, "SAVE TO DATABASE": save_report_to_db, then the PDF
AppSave(s, s_shift) ==
    /\ app[s].open
    /\ app[s].editing_report_id # NoReport \/ Len(db.reports) < MaxReports
    /\ LET ss == AutoLogic(app[s], db, ppm_file)
           report_data == AppReportData(Today, s_shift, Engineer, "")
           rid == AppSaveRid(ss, db)
       IN  /\ db' = Commit(db, ExecAll(db, AppSaveStmts(ss, db, report_data)))
           /\ app' = [app EXCEPT ![s] = ss]
           /\ ret' = [NoRet EXCEPT
                        !.op = "app.save", !.who = s, !.rid = rid,
                        !.args = <<report_data, ss.reactives, ss.ppms, ss.spares>>,
                        !.replaced = ChildrenOf(db.reactives, rid)
                                     \o ChildrenOf(db.ppms, rid) \o ChildrenOf(db.spares, rid),
                        !.pdf = app_generate_pdf_report(report_data, ss.reactives,
                                                        ss.ppms, ss.spares, ss)]
    /\ UNCHANGED <<log, dash, spares_csv, ppm_file, files>>

\* the same handler when its k-th statement raises: the exception leaves
\* save_report_to_db and the handler
AppSaveFail(s, s_shift) ==
    /\ app[s].open
    /\ app[s].editing_report_id # NoReport \/ Len(db.reports) < MaxReports
    /\ LET ss == AutoLogic(app[s], db, ppm_file)
           report_data == AppReportData(Today, s_shift, Engineer, "")
           stmts == AppSaveStmts(ss, db, report_data)
       IN  /\ \E k \in 1..Len(stmts) :
                    db' = Abandon(db, ExecAll(db, SubSeq(stmts, 1, k - 1)))
           /\ app' = [app EXCEPT ![s] = ss]
           /\ ret' = [NoRet EXCEPT !.op = "app.save", !.who = s, !.ok = FALSE]
    /\ UNCHANGED <<log, dash, spares_csv, ppm_file, files>>

(* SAVE TO DATABASE statement by statement, for sessions that save at the *)
(* same time: each session's script runs in its own thread with its own   *)
(* connection                                                             *)

\* another connection holds the write lock of the file
Locked(a, s) ==
    TxnMode = "deferred" /\ \E t \in AppSessions \ {s} : a[t].txn.active

\* what a statement of the connection acts on: its own uncommitted view, or
\* the file itself when every statement commits at once
Seen(d, txn) == IF TxnMode = "deferred" /\ txn.active THEN txn.view ELSE d

\* what the file holds after a statement that wrote `written`
AfterStmt(d, written) == IF TxnMode = "deferred" THEN d ELSE written

\* connect, then the first statement: it takes the write lock
AppSaveBegin(s, s_shift) ==
    /\ app[s].open /\ ~app[s].txn.active
    /\ app[s].editing_report_id # NoReport \/ Len(db.reports) < MaxReports
    /\ ~Locked(app, s)
    /\ LET ss == AutoLogic(app[s], db, ppm_file)
           report_data == AppReportData(Today, s_shift, Engineer, "")
           rid == AppSaveRid(ss, db)
           stmts == AppSaveStmts(ss, db, report_data)
           written == Exec(db, Head(stmts))
       IN  /\ app' = [app EXCEPT ![s] =
                    [ss EXCEPT !.txn =
                        [ active |-> TRUE, rid |-> rid, view |-> written,
                          todo |-> Tail(stmts), report_data |-> report_data,
                          replaced |-> ChildrenOf(db.reactives, rid)
                                       \o ChildrenOf(db.ppms, rid)
                                       \o ChildrenOf(db.spares, rid) ]]]
           /\ db' = AfterStmt(db, written)
    /\ UNCHANGED <<log, dash, spares_csv, ppm_file, files, ret>>

\* the first statement when another connection holds the lock until the
\* busy timeout runs out: sqlite3.OperationalError, database is locked
AppSaveBusy(s, s_shift) ==
    /\ app[s].open /\ ~app[s].txn.active
    /\ app[s].editing_report_id # NoReport \/ Len(db.reports) < MaxReports
    /\ Locked(app, s)
    /\ app' = [app EXCEPT ![s] = AutoLogic(app[s], db, ppm_file)]
    /\ ret' = [NoRet EXCEPT !.op = "app.save", !.who = s, !.ok = FALSE]
    /\ UNCHANGED <<db, log, dash, spares_csv, ppm_file, files>>

\* the next c.execute of the call
AppSaveStep(s) ==
    /\ app[s].txn.active /\ app[s].txn.todo # <<>>
    /\ LET txn == app[s].txn
           written == Exec(Seen(db, txn), Head(txn.todo))
       IN  /\ app' = [app EXCEPT ![s].txn.view = written,
                                 ![s].txn.todo = Tail(txn.todo)]
           /\ db' = AfterStmt(db, written)
    /\ UNCHANGED <<log, dash, spares_csv, ppm_file, files, ret>>

\* conn.commit(), return rid, then the PDF
AppSaveCommit(s) ==
    /\ app[s].txn.active /\ app[s].txn.todo = <<>>
    /\ LET txn == app[s].txn
           ss == app[s]
       IN  /\ db' = Commit(db, Seen(db, txn))
           /\ app' = [app EXCEPT ![s].txn = NoTxn]
           /\ ret' = [NoRet EXCEPT
                        !.op = "app.save", !.who = s, !.rid = txn.rid,
                        !.args = <<txn.report_data, ss.reactives, ss.ppms, ss.spares>>,
                        !.replaced = txn.replaced,
                        !.pdf = app_generate_pdf_report(txn.report_data, ss.reactives,
                                                        ss.ppms, ss.spares, ss)]
    /\ UNCHANGED <<log, dash, spares_csv, ppm_file, files>>

\* show_dashboard, "Load for Editing"
AppLoad(s, report_id) ==
    /\ app[s].open
    /\ db.reports # <<>>
    /\ app' = [app EXCEPT ![s] = load_report_for_editing(@, db, report_id)]
    /\ ret' = [NoRet EXCEPT !.op = "app.load", !.who = s, !.rid = report_id,
                            !.ok = (report_id \in ReportIds(db))]
    /\ UNCHANGED <<db, log, dash, spares_csv, ppm_file, files>>

(* shift_log.py *)

\* sidebar, "Force Reload Spares from CSV"
LogReload ==
    /\ LET r == reload_spares_from_csv(db, spares_csv)
       IN  /\ db' = Commit(db, [db EXCEPT !.spares_inventory = r.inventory])
           /\ ret' = [NoRet EXCEPT !.op = "log.reload", !.who = "log",
                                   !.count = r.count, !.duplicates = r.duplicates]
    /\ UNCHANGED <<app, log, dash, spares_csv, ppm_file, files>>

\* "Add Reactive"
LogAddReactive(r_called, r_back, s_sec_eng) ==
    /\ Entries(log) < MaxEntries
    /\ log' = [log EXCEPT !.reactives = Append(@,
                [ Asset |-> Asset, Fault |-> "Electrical",
                  TimeCalled |-> TimeStr(r_called), TimeBack |-> TimeStr(r_back),
                  Downtime |-> log_downtime(r_called, r_back),
                  Engineers |-> IF s_sec_eng # "" THEN 2 ELSE 1,
                  Description |-> <<"jam">> ])]
    /\ UNCHANGED <<db, app, dash, spares_csv, ppm_file, files, ret>>

\* "Add Spare": the part is picked from the inventory as this run read it
LogAddSpare(i, sp_qty) ==
    /\ Entries(log) < MaxEntries
    /\ i \in 1..Len(db.spares_inventory)
    /\ LET art == db.spares_inventory[i].art_number
           row == SelectSeq(db.spares_inventory, LAMBDA x : x.art_number = art)[1]
       IN  log' = [log EXCEPT !.spares = Append(@,
                [ ART |-> art, Description |-> row.description,
                  Location |-> row.location, Quantity |-> sp_qty,
                  CategoryCode |-> 1, Decision |-> "Disposed" ])]
    /\ UNCHANGED <<db, app, dash, spares_csv, ppm_file, files, ret>>

\* "Add PPM"
LogAddPpm ==
    /\ Entries(log) < MaxEntries
    /\ log' = [log EXCEPT !.ppms = Append(@,
                [Asset |-> Asset, Status |-> "Complete", Comments |-> "done"])]
    /\ UNCHANGED <<db, app, dash, spares_csv, ppm_file, files, ret>>

\* "SAVE REPORT": the inserts and the stock decrements, the commit, then both
\* documents rendered and written under their base name
LogSave(s_shift) ==
    /\ Len(db.reports) < MaxReports
    /\ LET r_data == LogReportData(Today, s_shift, Engineer, "", "ok",
                                   TRUE, TRUE, FALSE, FALSE)
           rid == NextReportId(db)
           xls == generate_excel_report(r_data, log.reactives, log.ppms,
                                        log.other_tasks, log.spares)
           pdf == log_generate_pdf_report(r_data, log.reactives, log.ppms,
                                          log.other_tasks, log.spares, rid)
           bname == BaseName(Today, s_shift, Engineer)
       IN  /\ db' = Commit(db, ExecAll(db, LogSaveStmts(log, db, r_data)))
           /\ files' = SelectSeq(files, LAMBDA f : f.bname # bname)
                       \o <<[bname |-> bname, xls |-> xls, pdf |-> pdf]>>
           /\ ret' = [NoRet EXCEPT
                        !.op = "log.save", !.who = "log", !.rid = rid,
                        !.args = <<r_data, log.reactives, log.ppms, log.spares>>,
                        !.pdf = pdf, !.xls = xls]
    /\ UNCHANGED <<app, log, dash, spares_csv, ppm_file>>

\* the same handler when its k-th statement raises
LogSaveFail(s_shift) ==
    /\ Len(db.reports) < MaxReports
    /\ LET r_data == LogReportData(Today, s_shift, Engineer, "", "ok",
                                   TRUE, TRUE, FALSE, FALSE)
           stmts == LogSaveStmts(log, db, r_data)
       IN  /\ \E k \in 1..Len(stmts) :
                    db' = Abandon(db, ExecAll(db, SubSeq(stmts, 1, k - 1)))
           /\ ret' = [NoRet EXCEPT !.op = "log.save", !.who = "log", !.ok = FALSE]
    /\ UNCHANGED <<app, log, dash, spares_csv, ppm_file, files>>

\* the same handler when, after conn.commit(), a renderer raises ("render"),
\* the workbook cannot be written ("xlsx") or the PDF cannot be written
\* ("pdf", the workbook is on disk by then): the exception leaves the
\* handler before st.success
LogSaveRenderFail(s_shift, at) ==
    /\ Len(db.reports) < MaxReports
    /\ LET r_data == LogReportData(Today, s_shift, Engineer, "", "ok",
                                   TRUE, TRUE, FALSE, FALSE)
           rid == NextReportId(db)
           xls == generate_excel_report(r_data, log.reactives, log.ppms,
                                        log.other_tasks, log.spares)
           bname == BaseName(Today, s_shift, Engineer)
           old == SelectSeq(files, LAMBDA f : f.bname = bname)
       IN  /\ db' = Commit(db, ExecAll(db, LogSaveStmts(log, db, r_data)))
           /\ files' = IF at = "pdf"
                       THEN SelectSeq(files, LAMBDA f : f.bname # bname)
                            \o <<[bname |-> bname, xls |-> xls,
                                  pdf |-> IF old = <<>> THEN <<>> ELSE old[1].pdf]>>
                       ELSE files
           /\ ret' = [NoRet EXCEPT !.op = "log.save", !.who = "log", !.rid = rid,
                                   !.ok = FALSE]
    /\ UNCHANGED <<app, log, dash, spares_csv, ppm_file>>

(* dashboard.py *)

\* a script run: load_data, the st.stop() guard, the low-stock frame
DashOpen ==
    /\ db.reports # <<>>
    /\ dash' = DashRun(db)
    /\ UNCHANGED <<db, app, log, spares_csv, ppm_file, files, ret>>

\* "Update Inventory Database": the manager has typed figure v into column col
\* of row i of the frame this run loaded; to_sql(if_exists="replace") rebuilds
\* the table from the frame, then st.rerun()
DashUpdate(i, col, v) ==
    /\ dash.loaded
    /\ i \in 1..Len(dash.df_inventory)
    /\ LET edited_df == [dash.df_inventory EXCEPT ![i][col] = v]
       IN  /\ db' = Commit(db, [db EXCEPT !.spares_inventory = edited_df,
                                          !.inventory_pk = FALSE])
           /\ dash' = DashRun(db')
    /\ UNCHANGED <<app, log, spares_csv, ppm_file, files, ret>>

(* the maintainers of the master data *)

EditCsv(c) ==
    /\ c # spares_csv
    /\ spares_csv' = c
    /\ UNCHANGED <<db, app, log, dash, ppm_file, files, ret>>

\* the handlers of app.py, for sessions S and these widget values
AppNext(S, TP, ST, A, Q) ==
    \/ \E s \in S : OpenApp(s)
    \/ \E s \in S, tp \in TP, st \in ST : AppAddReactive(s, tp[1], tp[2], st)
    \/ \E s \in S : AppAddPpm(s)
    \/ \E s \in S, a \in A, q \in Q : AppAddSpare(s, a, q)
    \/ \E s \in S : AppCancel(s)
    \/ \E s \in S, sh \in AppShifts : AppSave(s, sh)
    \/ \E s \in S, sh \in AppShifts : AppSaveFail(s, sh)
    \/ \E s \in S, id \in 1..(MaxReports + 1) : AppLoad(s, id)

\* the handlers of shift_log.py
LogNext(TP, Q, SH) ==
    \/ LogReload
    \/ \E tp \in TP : LogAddReactive(tp[1], tp[2], "")
    \/ \E i \in 1..2, q \in Q : LogAddSpare(i, q)
    \/ LogAddPpm
    \/ \E sh \in SH : LogSave(sh)
    \/ \E sh \in SH : LogSaveFail(sh)

\* the handlers of dashboard.py
DashNext ==
    \/ DashOpen
    \/ \E i \in 1..2, col \in {"stock_level", "min_stock_level"}, v \in 0..MaxStock :
            DashUpdate(i, col, v)

TwoParts == CHOOSE c \in Catalogs : c[1].part # c[2].part /\ c[1].part # "nan"

(* app.py alone: one browser session after another *)
InitApp == Init /\ spares_csv = TwoParts

NextApp ==
    \/ AppNext({"u1"}, {<<480, 525>>}, AppStatuses, {"P1"}, {1})
    \/ CloseApp("u1")

SpecApp == InitApp /\ [][NextApp]_vars

(* app.py alone: two browser sessions at once *)
NextApp2 ==
    \/ \E s \in AppSessions : OpenApp(s)
    \/ \E s \in AppSessions : AppAddReactive(s, 480, 525, "In Progress")
    \/ \E s \in AppSessions : AppAddPpm(s)
    \/ \E s \in AppSessions : AppAddSpare(s, "P1", 1)
    \/ \E s \in AppSessions : AppSave(s, "Day Shift")
    \/ \E s \in AppSessions, id \in 1..MaxReports : AppLoad(s, id)

InitApp2 == InitApp /\ ppm_file = "malformed"

SpecApp2 == InitApp2 /\ [][NextApp2]_vars

(* shift_log.py alone *)
InitLog == Init /\ ppm_file = "malformed"

NextLog ==
    \/ LogNext({<<480, 525>>, <<1410, 15>>}, Quantities, {"Day"})
    \/ \E at \in {"render", "xlsx", "pdf"} : LogSaveRenderFail("Day", at)
    \/ \E c \in Catalogs : EditCsv(c)

SpecLog == InitLog /\ [][NextLog]_vars

(* dashboard.py, fed by shift_log.py *)
NextDash ==
    \/ LogReload
    \/ \E sh \in LogShifts : LogSave(sh)
    \/ DashNext

InitDash == InitLog /\ spares_csv = TwoParts

SpecDash == InitDash /\ [][NextDash]_vars

(* app.py editing the reports that app.py and shift_log.py wrote *)
NextEdit ==
    \/ OpenApp("u1")
    \/ AppAddReactive("u1", 480, 525, "Complete")
    \/ AppAddSpare("u1", "P1", 1)
    \/ \E sh \in AppShiftsAll : AppSave("u1", sh)
    \/ \E id \in 1..MaxReports : AppLoad("u1", id)
    \/ AppCancel("u1")
    \/ LogAddReactive(480, 525, "")
    \/ LogSave("Day")

SpecEdit == InitApp2 /\ [][NextEdit]_vars

(* app.py with a store whose carry-over query may fail *)
NextFault ==
    \/ \E s \in AppSessions : OpenApp(s)
    \/ \E s \in AppSessions : AppRunFault(s)
    \/ \E s \in AppSessions : AppAddReactive(s, 480, 525, "In Progress")
    \/ \E s \in AppSessions : AppSave(s, "Day Shift")
    \/ \E s \in AppSessions : CloseApp(s)

SpecFault == InitApp /\ [][NextFault]_vars

(* the inventory under shift_log.py, the dashboard and the catalog's maintainers *)
NextInv ==
    \/ LogReload
    \/ \E c \in Catalogs : EditCsv(c)
    \/ LogAddSpare(1, 1)
    \/ LogSave("Day")
    \/ DashOpen
    \/ \E i \in 1..2 : DashUpdate(i, "stock_level", MaxStock)

SpecInv == InitLog /\ [][NextInv]_vars

(* app.py: two sessions whose saves run at the same time *)
Idle(s) == ~app[s].txn.active

NextConc ==
    \/ \E s \in AppSessions : OpenApp(s)
    \/ \E s \in AppSessions : Idle(s) /\ AppAddReactive(s, 480, 525, "In Progress")
    \/ \E s \in AppSessions : Idle(s) /\ AppAddSpare(s, "P1", 1)
    \/ \E s \in AppSessions : Idle(s) /\ AppLoad(s, 1)
    \/ \E s \in AppSessions, sh \in AppShiftsAll : AppSaveBegin(s, sh)
    \/ \E s \in AppSessions, sh \in AppShiftsAll : AppSaveBusy(s, sh)
    \/ \E s \in AppSessions : AppSaveStep(s)
    \/ \E s \in AppSessions : AppSaveCommit(s)

SpecConc == InitApp2 /\ [][NextConc]_vars


(* and spare entries, load a report and save                               *)
InitAll == Init /\ ppm_file = "scheduled" /\ spares_csv = TwoParts

Next ==
    \/ OpenApp("u1")
    \/ AppAddReactive("u1", 1410, 15, "In Progress")
    \/ AppAddSpare("u1", "P1", 1)
    \/ AppSave("u1", "Day Shift")
    \/ AppSaveFail("u1", "Day Shift")
    \/ \E id \in 1..MaxReports : AppLoad("u1", id)
    \/ LogReload
    \/ LogAddReactive(1410, 15, "")
    \/ \E i \in 1..2 : LogAddSpare(i, 1)
    \/ LogSave("Day")
    \/ LogSaveFail("Day")

Spec == InitAll /\ [][Next]_vars

----------------------------------------------------------------------------
(* Properties *)

AllSessionReactives ==
    UNION {Range(app[s].reactives) : s \in AppSessions} \cup Range(log.reactives)

\* (back - call) in minutes, brought into 0..1439
Normalized(call, back) == (back - call) % MinutesPerDay

\* C1: every reactive entry a session holds has the downtime (time_back -
\* time_called) normalized into [0, 1440): back - call when back >= call,
\* back - call + 1440 when back < call, 0 when the times are equal, whichever
\* of app.py and shift_log.py added it.
C1_DowntimeNormalized ==
    \A r \in AllSessionReactives :
        r.Downtime = Normalized(TimeOfStr(r.TimeCalled), TimeOfStr(r.TimeBack))

\* C2: in every reachable state every reactive entry of a session list and
\* every row of reactives in the store has downtime >= 0.
C2_DowntimeNonNegative ==
    /\ \A r \in AllSessionReactives : r.Downtime >= 0
    /\ \A i \in 1..Len(db.reactives) : db.reactives[i].downtime >= 0

\* C3: when save_report_to_db has stored a report under id X and
\* load_report_for_editing(X) runs next (in any session, whatever its lists
\* held), the session is left with exactly the multiset of reactive, PPM and
\* spare entries that were saved: same count, same field values, nothing of
\* the lists it held before.
C3_SaveThenLoad ==
    [][\A s \in AppSessions :
          (ret.op = "app.save" /\ ret.ok /\ AppLoad(s, ret.rid))
          => /\ ret'.ok
             /\ app'[s].editing_report_id = ret.rid
             /\ BagOfSeq(app'[s].reactives) = BagOfSeq(ret.args[2])
             /\ BagOfSeq(app'[s].ppms) = BagOfSeq(ret.args[3])
             /\ BagOfSeq(app'[s].spares) = BagOfSeq(ret.args[4])]_vars

\* a session has just loaded a report that has reactive and spare rows
C3_Witness ==
    /\ ret.op = "app.load" /\ ret.ok
    /\ \E s \in AppSessions :
          /\ app[s].editing_report_id = ret.rid
          /\ app[s].reactives # <<>> /\ app[s].spares # <<>>
          /\ Len(ChildrenOf(db.reactives, ret.rid)) = Len(app[s].reactives)
          /\ Len(ChildrenOf(db.spares, ret.rid)) = Len(app[s].spares)

SessionRows(ss, rid) ==
    [i \in 1..Len(ss.reactives) |-> AppReactiveRow(rid, ss.reactives[i])]
    \o [i \in 1..Len(ss.ppms) |-> AppPpmRow(rid, ss.ppms[i])]
    \o [i \in 1..Len(ss.spares) |-> AppSpareRow(rid, ss.spares[i])]

StoredRows(d, rid) ==
    ChildrenOf(d.reactives, rid) \o ChildrenOf(d.ppms, rid) \o ChildrenOf(d.spares, rid)

\* C4: an edit-mode save of report X leaves in reactives, ppms and spares
\* exactly the rows of the saving session's lists for X; of the rows X had
\* before (those of an earlier save), none is left unless the new set holds
\* it too.  With disjoint sets A then B: exactly B, no row of A.
C4_EditSaveReplaces ==
    [][\A s \in AppSessions :
          (app[s].editing_report_id # NoReport /\ AppSave(s, "Day Shift"))
          => LET X == app[s].editing_report_id
             IN  /\ ret'.rid = X
                 /\ BagOfSeq(StoredRows(db', X)) = BagOfSeq(SessionRows(app[s], X))
                 /\ \A row \in Range(StoredRows(db, X)) \ Range(SessionRows(app[s], X)) :
                        row \notin Range(StoredRows(db', X))]_vars

\* an edit-mode save has just replaced a non-empty set of rows by a non-empty
\* set that shares no row with it
C4_Witness ==
    /\ ret.op = "app.save" /\ ret.ok
    /\ app[ret.who].editing_report_id = ret.rid
    /\ ret.replaced # <<>>
    /\ StoredRows(db, ret.rid) # <<>>
    /\ Range(ret.replaced) \cap Range(StoredRows(db, ret.rid)) = {}
    /\ BagOfSeq(StoredRows(db, ret.rid)) = BagOfSeq(SessionRows(app[ret.who], ret.rid))

\* C5: when a statement of a report save raises, in app.py or in shift_log.py,
\* nothing of that save is committed (reports, reactives, ppms, spares, spares
\* used and inventory are as before the save began), no document is written,
\* and the handler ends in an error; an edit-mode save that fails after its
\* DELETEs leaves the report with its previous children.
C5_FailedSaveCommitsNothing ==
    [][((\E s \in AppSessions, sh \in AppShifts : AppSaveFail(s, sh))
        \/ (\E sh \in LogShifts : LogSaveFail(sh)))
       => (db' = db /\ files' = files /\ ~ret'.ok /\ ret'.rid = NoReport)]_vars

\* an edit-mode save has just failed and the report still has child rows
C5_Witness ==
    /\ ret.op = "app.save" /\ ~ret.ok
    /\ app[ret.who].editing_report_id # NoReport
    /\ StoredRows(db, app[ret.who].editing_report_id) # <<>>
    /\ Len(app[ret.who].reactives) + Len(app[ret.who].ppms) + Len(app[ret.who].spares)
         > Len(StoredRows(db, app[ret.who].editing_report_id))

\* the quantities of the spare entries that name part art, summed
RECURSIVE UsedQty(_, _)
UsedQty(spares, art) ==
    IF spares = <<>> THEN 0
    ELSE (IF Head(spares).ART = art THEN Head(spares).Quantity ELSE 0)
         + UsedQty(Tail(spares), art)

InventoryParts(d) == {d.spares_inventory[i].art_number : i \in 1..Len(d.spares_inventory)}

\* C6: a save of shift_log.py leaves every inventory row as it was except
\* that its stock_level is lower by the summed quantities of the saved spare
\* entries naming its part (so rows of other parts do not change); an entry
\* naming a part that is not in the inventory changes nothing and the save
\* still succeeds.
C6_StockDecrement ==
    [][(\E sh \in LogShifts : LogSave(sh))
       => /\ ret'.ok
          /\ Len(db'.spares_inventory) = Len(db.spares_inventory)
          /\ \A i \in 1..Len(db.spares_inventory) :
                db'.spares_inventory[i] =
                    [db.spares_inventory[i] EXCEPT
                        !.stock_level = @ - UsedQty(log.spares, db.spares_inventory[i].art_number)]
          /\ Len(ChildrenOf(db'.spares_used, ret'.rid)) = Len(log.spares)]_vars

\* a save has just written one entry naming a part of the inventory, whose
\* stock is down by that quantity, and one entry naming a part that is absent
C6_Witness ==
    /\ ret.op = "log.save" /\ ret.ok
    /\ \E i, j \in 1..Len(log.spares) :
          /\ log.spares[i].ART \notin InventoryParts(db)
          /\ log.spares[j].ART \in InventoryParts(db)
          /\ log.spares[j].Quantity = 2
          /\ \A n \in 1..Len(db.spares_inventory) :
                db.spares_inventory[n].stock_level = InitialStock - 2
    /\ Len(ChildrenOf(db.spares_used, ret.rid)) = 2

\* C7: every save that writes spare usage rows, through shift_log.py or
\* through save_report_to_db of app.py, lowers the stock_level of each
\* inventory item by the quantities of the rows written for its part.
C7_EverySaveDecrements ==
    [][((\E s \in AppSessions, sh \in AppShifts : AppSave(s, sh))
        \/ (\E sh \in LogShifts : LogSave(sh)))
       => \A i \in 1..Len(db.spares_inventory) :
             db'.spares_inventory[i].stock_level =
                 db.spares_inventory[i].stock_level
                 - UsedQty(ret'.args[4], db.spares_inventory[i].art_number)]_vars

\* C8: the low-stock frame of the dashboard holds exactly the inventory rows
\* it loaded whose stock_level <= min_stock_level: each such row, equality
\* included, once per row, and no row whose stock is above its minimum.
C8_LowStockExact ==
    dash.loaded =>
        /\ Range(dash.low_stock) =
              {row \in Range(dash.df_inventory) : row.stock_level <= row.min_stock_level}
        /\ Len(dash.low_stock) =
              Cardinality({i \in 1..Len(dash.df_inventory) :
                  ~(dash.df_inventory[i].stock_level > dash.df_inventory[i].min_stock_level)})

\* the dashboard shows a row at exactly its minimum as low and leaves out a
\* row above its minimum
C8_Witness ==
    /\ dash.loaded
    /\ \E row \in Range(dash.low_stock) : row.stock_level = row.min_stock_level
    /\ \E row \in Range(dash.df_inventory) :
          row.stock_level = row.min_stock_level + 1 /\ row \notin Range(dash.low_stock)

Sections(doc) == {doc[i].sec : i \in 1..Len(doc)}

\* C9: when a child list (reactives, PPMs, spares) given to the renderers is
\* empty, neither the workbook nor the PDF of the save holds anything of that
\* section: no heading, no header row, no table row.
C9_EmptySectionsOmitted ==
    (ret.op \in {"app.save", "log.save"} /\ ret.ok) =>
        \A doc \in {ret.pdf, ret.xls} :
            /\ ret.args[2] = <<>> => "reactives" \notin Sections(doc)
            /\ ret.args[3] = <<>> => "ppms" \notin Sections(doc)
            /\ ret.args[4] = <<>> => "spares" \notin Sections(doc)

\* C10: two consecutive calls of a renderer with equal arguments (header,
\* child lists, and the report id where it is an argument) yield the same
\* document, whatever the sessions and the store hold at the two calls.
C10_RenderersPure ==
    [][(/\ ret.op \in {"app.save", "log.save"} /\ ret.ok
        /\ ret'.op = ret.op /\ ret'.ok
        /\ ret'.args = ret.args
        /\ ret.op = "log.save" => ret'.rid = ret.rid)
       => (ret'.pdf = ret.pdf /\ ret'.xls = ret.xls)]_vars


\* C11: the PDF of every successful save, of a new report and of an edited
\* one, through either entry point, has as its first element the title with
\* the id of the report that save wrote.
C11_TitleCarriesId ==
    (ret.op \in {"app.save", "log.save"} /\ ret.ok) =>
        ret.pdf[1] = El("title", "heading", <<"SHIFT REPORT #", ToString(ret.rid)>>)


\* C12: load_report_for_editing(id) for an id with no row in reports gives
\* the not-found result and changes nothing: the session keeps its editing
\* marker and its three lists, and the store is as it was.
C12_LoadNotFound ==
    [][\A s \in AppSessions, id \in 1..(MaxReports + 1) :
          (id \notin ReportIds(db) /\ AppLoad(s, id))
          => (~ret'.ok /\ app' = app /\ db' = db)]_vars

\* a load has just answered not-found to a session that holds entries
C12_Witness ==
    /\ ret.op = "app.load" /\ ~ret.ok
    /\ ret.rid \notin ReportIds(db)
    /\ Entries(app[ret.who]) > 0


\* the rows of a child table that belong to reports other than rid
OthersOf(table, rid) == SelectSeq(table, LAMBDA row : row.report_id # rid)

\* C13: a successful load_report_for_editing(X) marks the session as editing
\* X, and a save in a session that edits X changes only X's header row and
\* X's child rows: reports keeps its length and every id, and the header and
\* the child rows of every other report are as before.
C13_EditSaveFrame ==
    [][\A s \in AppSessions :
          /\ \A id \in 1..MaxReports :
                (id \in ReportIds(db) /\ AppLoad(s, id))
                => (ret'.ok /\ app'[s].editing_report_id = id)
          /\ \A sh \in AppShiftsAll :
                (app[s].editing_report_id # NoReport /\ AppSave(s, sh))
                => LET X == app[s].editing_report_id
                   IN  /\ ret'.rid = X
                       /\ Len(db'.reports) = Len(db.reports)
                       /\ \A i \in 1..Len(db.reports) :
                             /\ db'.reports[i].id = db.reports[i].id
                             /\ db.reports[i].id # X => db'.reports[i] = db.reports[i]
                       /\ OthersOf(db'.reactives, X) = OthersOf(db.reactives, X)
                       /\ OthersOf(db'.ppms, X) = OthersOf(db.ppms, X)
                       /\ OthersOf(db'.spares, X) = OthersOf(db.spares, X)
                       /\ db'.spares_used = db.spares_used
                       /\ db'.spares_inventory = db.spares_inventory]_vars

\* an edit-mode save has just rewritten one of two reports, the other one has
\* child rows and a header of another shift
C13_Witness ==
    /\ ret.op = "app.save" /\ ret.ok
    /\ app[ret.who].editing_report_id = ret.rid
    /\ Len(db.reports) = 2
    /\ \E i, j \in 1..2 :
          /\ db.reports[i].id = ret.rid /\ db.reports[j].id # ret.rid
          /\ db.reports[i].shift # db.reports[j].shift
          /\ ChildrenOf(db.reactives, db.reports[j].id) # <<>>


\* C14: after a successful save through either entry point the store holds,
\* under the id the save wrote, one row for each entry of the session's
\* reactive list, one for each entry of its PPM list and one for each entry
\* of its spare list (spares for app.py, spares_used for shift_log.py).
C14_AllCollectionsPersisted ==
    (ret.op \in {"app.save", "log.save"} /\ ret.ok) =>
        /\ Len(ChildrenOf(db.reactives, ret.rid)) = Len(ret.args[2])
        /\ Len(ChildrenOf(db.ppms, ret.rid)) = Len(ret.args[3])
        /\ Len(ChildrenOf(IF ret.op = "app.save" THEN db.spares ELSE db.spares_used,
                          ret.rid)) = Len(ret.args[4])


\* C15: the automatic population of a new session appends to its reactive
\* list one entry for every row of reactives, of any report, whose status is
\* not Complete, in the fields of the row with the description behind the
\* carry-over marker, and nothing for a row whose status is Complete.
C15_CarryOverImport ==
    [][\A s \in AppSessions :
          OpenApp(s)
          => app'[s].reactives =
                Map(CarryOverEntry,
                    SelectSeq(db.reactives, LAMBDA row : row.status # "Complete"))]_vars


\* C16: in one session the automatic population runs at most once, whatever
\* renders, adds, saves, loads-for-edit and cancels follow, and no step that
\* leaves the session marked as editing a report runs it, so the lists of a
\* loaded report never receive imported entries.
C16_AutoPopulationOnce ==
    [][\A s \in AppSessions :
          /\ app'[s].auto_runs <= 1
          /\ (app[s].open /\ app'[s].editing_report_id # NoReport)
             => /\ app'[s].auto_runs = app[s].auto_runs
                /\ AutoLogic(app'[s], db', ppm_file') = app'[s]]_vars

\* a session that was populated once has loaded a report and cancelled: it
\* is in create mode again with empty lists although the schedule has a task
\* for today
C16_Witness ==
    \E s \in AppSessions :
        /\ app[s].open /\ app[s].auto_runs = 1
        /\ app[s].editing_report_id = NoReport
        /\ ppm_file = "scheduled" /\ db.reports # <<>>
        /\ Entries(app[s]) = 0


\* C17: when the carry-over query raises, or the schedule file does not
\* parse, the import counts as having found nothing: the list it feeds is
\* left as it was and the run goes on to where the report can be saved.
C17_ImportFailuresSwallowed ==
    [][\A s \in AppSessions :
          /\ AppRunFault(s)
             => /\ app'[s].reactives = app[s].reactives
                /\ CanSave(app'[s])
          /\ (ppm_file = "malformed" /\ OpenApp(s))
             => /\ app'[s].ppms = app[s].ppms
                /\ CanSave(app'[s])]_vars


\* C18: whatever reloads of the catalog, stock decrements of saves and
\* overwrites from the dashboard have happened, no two rows of
\* spares_inventory have the same part number.
C18_InventoryUnique ==
    \A i, j \in 1..Len(db.spares_inventory) :
        db.spares_inventory[i].art_number = db.spares_inventory[j].art_number => i = j


\* the part numbers reload_spares_from_csv accepts
ValidPart(p) == p # "UNKNOWN" /\ p # "nan"

\* the places of the catalog rows that name part p
PlacesOf(csv, p) == {i \in 1..Len(csv) : csv[i].part = p}

\* C19: when reload_spares_from_csv has run, spares_inventory holds one row
\* for each distinct valid part number of the catalog, with the description
\* and location of the last catalog row of that part, at the initial stock,
\* and no row of a part the catalog does not name.
C19_ReloadExact ==
    [][LogReload
       => LET inv == db'.spares_inventory
              parts == {spares_csv[i].part : i \in 1..Len(spares_csv)}
              valid == {p \in parts : ValidPart(p)}
          IN  /\ {inv[i].art_number : i \in 1..Len(inv)} = valid
              /\ Len(inv) = Cardinality(valid)
              /\ \A i \in 1..Len(inv) :
                    LET last == CHOOSE k \in PlacesOf(spares_csv, inv[i].art_number) :
                                    \A n \in PlacesOf(spares_csv, inv[i].art_number) : n <= k
                    IN  /\ inv[i].description = spares_csv[last].desc
                        /\ inv[i].location = spares_csv[last].loc
                        /\ inv[i].stock_level = InitialStock]_vars

\* C20: the duplicate count reload_spares_from_csv reports is the number of
\* catalog rows whose valid part number an earlier row of the catalog
\* already named, and the loaded count it reports is the number of rows of
\* spares_inventory after the reload.
C20_ReloadCounts ==
    [][LogReload
       => /\ ret'.duplicates =
                Cardinality({i \in 1..Len(spares_csv) :
                    /\ ValidPart(spares_csv[i].part)
                    /\ \E j \in 1..(i - 1) : spares_csv[j].part = spares_csv[i].part})
          /\ ret'.count = Len(db'.spares_inventory)]_vars


\* C21: for every row of reports, the documents the report browser resolves
\* from its date, shift and engineer are those rendered when that report
\* was saved (their title page carries its id), whatever was saved later.
C21_BrowserResolvesOwnDocs ==
    \A i \in 1..Len(db.reports) :
        \A f \in Range(ResolveDocs(db.reports[i], files)) :
            f.pdf # <<>> =>
            f.pdf[1] = El("title", "heading",
                          <<"SHIFT REPORT #", ToString(db.reports[i].id)>>)


\* the reports row of report rid
HeaderOf(d, rid) == SelectSeq(d.reports, LAMBDA row : row.id = rid)

\* C22: when sessions save the same report at the same time, after each
\* commit the store holds for that report the header and exactly the child
\* rows of the session that has just committed, none of another session's
\* rows mixed in and none missing; so the session committing last decides.
C22_LastWriterWins ==
    [][\A s \in AppSessions :
          AppSaveCommit(s)
          => LET X == app[s].txn.rid
             IN  /\ ret'.ok /\ ret'.rid = X
                 /\ BagOfSeq(StoredRows(db', X)) = BagOfSeq(SessionRows(app[s], X))
                 /\ Len(HeaderOf(db', X)) = 1
                 /\ HeaderOf(db', X)[1].shift = app[s].txn.report_data.shift]_vars

\* a session has just committed its save of a report that another session
\* has loaded too; the rows it replaced were the other session's, and its
\* own are different and not empty
C22_Witness ==
    /\ ret.op = "app.save" /\ ret.ok
    /\ app[ret.who].editing_report_id = ret.rid
    /\ \E t \in AppSessions \ {ret.who} :
          /\ app[t].editing_report_id = ret.rid
          /\ BagOfSeq(ret.replaced) = BagOfSeq(SessionRows(app[t], ret.rid))
          /\ Range(ret.replaced) \cap Range(StoredRows(db, ret.rid)) = {}
    /\ ret.replaced # <<>>
    /\ StoredRows(db, ret.rid) # <<>>


\* the rows of reactives that are not Complete
OpenRows(d) == SelectSeq(d.reactives, LAMBDA row : row.status # "Complete")

\* C23: every fresh session of app.py imports every row of reactives that
\* is not Complete, the saved copies of earlier carry-overs included, and a
\* create-mode save adds one such row for each open entry of the session:
\* over fresh sessions that save what they imported, the open rows never get
\* fewer and each later session imports the originals and all their copies.
C23_ReimportGrowth ==
    [][\A s \in AppSessions :
          /\ OpenApp(s)
             => /\ Len(app'[s].reactives) = Len(OpenRows(db))
                /\ \A i \in 1..Len(OpenRows(db)) :
                      app'[s].reactives[i] = CarryOverEntry(OpenRows(db)[i])
          /\ \A sh \in AppShifts :
                (app[s].editing_report_id = NoReport /\ AppSave(s, sh))
                => /\ Len(OpenRows(db')) =
                        Len(OpenRows(db))
                        + Len(SelectSeq(app[s].reactives,
                                        LAMBDA r : r.Status # "Complete"))
                   /\ Len(OpenRows(db')) >= Len(OpenRows(db))]_vars


\* C24: the SAVE REPORT handler of shift_log.py commits the header, the
\* children and the stock decrements before it renders or writes a
\* document: when rendering or writing fails, the report and its rows are
\* in the store, the stock is lowered, nothing is rolled back, and the
\* handler ends in an error, not in the message of a successful save.
C24_CommitBeforeRender ==
    [][\A at \in {"render", "xlsx", "pdf"} :
          LogSaveRenderFail("Day", at)
          => /\ ~ret'.ok
             /\ ReportIds(db') = ReportIds(db) \cup {ret'.rid}
             /\ ret'.rid \notin ReportIds(db)
             /\ Len(ChildrenOf(db'.reactives, ret'.rid)) = Len(log.reactives)
             /\ Len(ChildrenOf(db'.spares_used, ret'.rid)) = Len(log.spares)
             /\ Len(db'.spares_inventory) = Len(db.spares_inventory)
             /\ \A i \in 1..Len(db.spares_inventory) :
                   db'.spares_inventory[i].stock_level =
                       db.spares_inventory[i].stock_level
                       - UsedQty(log.spares, db.spares_inventory[i].art_number)]_vars

\* a save has just failed after its commit: the report is stored with a
\* spare row, the stock of the part is lowered, and no document of it exists
C24_Witness ==
    /\ ret.op = "log.save" /\ ~ret.ok
    /\ ret.rid \in ReportIds(db)
    /\ ChildrenOf(db.spares_used, ret.rid) # <<>>
    /\ \E i \in 1..Len(db.spares_inventory) :
          db.spares_inventory[i].stock_level < InitialStock
    /\ files = <<>>


\* C25: a save leaves the child lists of the session and its editing marker
\* as they were. In a session that edits nothing the save writes a report
\* under an id no report had, with the children of the lists, and leaves the
\* marker unset and the lists populated, so the next save does the same
\* again; in a session that edits a report the save writes under the id of
\* the marker, the marker still names it afterwards, and the number of
\* reports is unchanged. shift_log.py has no marker: each of its saves
\* writes a new report from lists it leaves as they were.
C25_SaveKeepsSession ==
    [][/\ \A s \in AppSessions, sh \in AppShifts :
            AppSave(s, sh)
            => /\ app'[s].reactives = app[s].reactives
               /\ app'[s].ppms = app[s].ppms
               /\ app'[s].spares = app[s].spares
               /\ app'[s].editing_report_id = app[s].editing_report_id
               /\ ChildrenOf(db'.reactives, ret'.rid) =
                      [i \in 1..Len(app[s].reactives) |->
                          AppReactiveRow(ret'.rid, app[s].reactives[i])]
               /\ ChildrenOf(db'.spares, ret'.rid) =
                      [i \in 1..Len(app[s].spares) |->
                          AppSpareRow(ret'.rid, app[s].spares[i])]
               /\ IF app[s].editing_report_id = NoReport
                  THEN /\ ret'.rid \notin ReportIds(db)
                       /\ ReportIds(db') = ReportIds(db) \cup {ret'.rid}
                       /\ Len(db'.reports) = Len(db.reports) + 1
                  ELSE /\ ret'.rid = app[s].editing_report_id
                       /\ ReportIds(db') = ReportIds(db)
                       /\ Len(db'.reports) = Len(db.reports)
       /\ LogSave("Day")
            => /\ log' = log
               /\ ret'.rid \notin ReportIds(db)
               /\ Len(db'.reports) = Len(db.reports) + 1
               /\ ChildrenOf(db'.reactives, ret'.rid) =
                      [i \in 1..Len(log.reactives) |->
                          LogReactiveRow(ret'.rid, log.reactives[i])]]_vars

\* the same populated lists were saved twice, as reports 1 and 2 with the
\* same children, and a session that edits report 1 has just saved it: its
\* marker still names report 1 and there are still two reports
C25_Witness ==
    /\ Len(db.reports) = 2
    /\ ChildrenOf(db.reactives, 1) # <<>>
    /\ \A i \in 1..Len(ChildrenOf(db.reactives, 1)) :
          ChildrenOf(db.reactives, 1)[i].status = "In Progress"
    /\ ChildrenOf(db.reactives, 2) =
          [i \in 1..Len(ChildrenOf(db.reactives, 1)) |->
              [ChildrenOf(db.reactives, 1)[i] EXCEPT !.report_id = 2]]
    /\ ret.op = "app.save" /\ ret.ok /\ ret.rid = 1
    /\ app["u1"].editing_report_id = 1
    /\ app["u1"].reactives # <<>>

====
